---- MODULE Spec2Model ----
(***************************************************************************)
(* A model of the TMDB proxy of src/main.py: the provider client           *)
(* (get_tmdb_key, tmdb_get), the item normalizer (map_tmdb_item) and the   *)
(* three TMDB-backed endpoint handlers (tmdb_trending, tmdb_search,        *)
(* tmdb_movie_details).                                                    *)
(*                                                                         *)
(* Encoding of Python / JSON values.                                       *)
(*  - A value that may be None (JSON null) is an option: None is <<>> and  *)
(*    a value v is <<v>>.  dict.get(k) of a missing key is None as well.   *)
(*  - A dict is a function from its keys to option values.                 *)
(*  - Text that the code only passes along or concatenates is a string.    *)
(*    Text that the code inspects character by character (a date, which    *)
(*    is split on "-", and the search query, which is stripped) is a       *)
(*    sequence of one-character strings.                                   *)
(***************************************************************************)
EXTENDS Integers, Sequences, FiniteSets, TLC

VARIABLES
    TMDB_API_KEY,   \* os.getenv("TMDB_API_KEY"): None or <<key>>
    pc,             \* "idle", "waiting" (blocked in requests.get) or "done"
    req,            \* <<the inbound request>> being handled, or None
    sent,           \* the outbound GETs issued while handling req
    upstream,       \* <<what requests.get produced>>, or None
    response        \* <<the response to the caller>>, or None

vars == <<TMDB_API_KEY, pc, req, sent, upstream, response>>

None == <<>>
Some(v) == <<v>>

\* Python truthiness of an optional string: None and "" are falsy.
TruthyStr(v) == v # None /\ v[1] # ""

\* Python truthiness of an optional character sequence.
TruthyChars(v) == v # None /\ v[1] # <<>>

\* dict.get(k): None for a missing key.
Get(d, k) == IF k \in DOMAIN d THEN d[k] ELSE None

\* dict.get(k, default)
GetOr(d, k, default) == IF k \in DOMAIN d THEN d[k] ELSE default

(***************************************************************************)
(* Text helpers.                                                           *)
(***************************************************************************)
DigitChars == <<"0", "1", "2", "3", "4", "5", "6", "7", "8", "9">>

DigitChar(d) == DigitChars[d + 1]

DigitValue(c) == CHOOSE d \in 0..9 : DigitChars[d + 1] = c

RECURSIVE StrNat(_)
StrNat(n) == IF n < 10 THEN DigitChar(n) ELSE StrNat(n \div 10) \o DigitChar(n % 10)

\* str(n) of a Python int
Str(n) == IF n < 0 THEN "-" \o StrNat(-n) ELSE StrNat(n)

\* "".join(chars)
RECURSIVE Join(_)
Join(chars) == IF chars = <<>> THEN "" ELSE Head(chars) \o Join(Tail(chars))

Whitespace == {" ", "\t", "\n", "\r"}

RECURSIVE LStrip(_)
LStrip(s) == IF s # <<>> /\ Head(s) \in Whitespace THEN LStrip(Tail(s)) ELSE s

RECURSIVE RStrip(_)
RStrip(s) ==
    IF s # <<>> /\ s[Len(s)] \in Whitespace THEN RStrip(SubSeq(s, 1, Len(s) - 1)) ELSE s

\* str.strip()
Strip(s) == RStrip(LStrip(s))

\* s.split("-")[0]: the text before the first "-", all of s when it has none.
RECURSIVE FirstSegment(_)
FirstSegment(s) ==
    IF s = <<>> \/ Head(s) = "-" THEN <<>> ELSE <<Head(s)>> \o FirstSegment(Tail(s))

\* int(text) of a non-empty run of decimal digits.  (On any other text of
\* digits and "-" int raises ValueError; the dates drawn below all have a
\* first segment that parses.)
RECURSIVE ParseInt(_)
ParseInt(s) ==
    IF Len(s) = 1 THEN DigitValue(s[1])
    ELSE 10 * ParseInt(SubSeq(s, 1, Len(s) - 1)) + DigitValue(s[Len(s)])

(***************************************************************************)
(* Provider client.                                                        *)
(***************************************************************************)
TMDB_BASE == "https://api.themoviedb.org/3"

REQUEST_TIMEOUT == 15

HTTP_OK == 200

HTTPException(status_code, detail) ==
    [status_code |-> status_code, content |-> [detail |-> detail]]

Raise(exc) == [kind |-> "raise", exc |-> exc]

Return(value) == [kind |-> "return", value |-> value]

\* Mutant of get_tmdb_key: "if key is None" for "if not key".
get_tmdb_key_none_only(env) ==
    IF env = None
    THEN Raise(HTTPException(500, "TMDB_API_KEY not set in environment"))
    ELSE Return(env[1])

\* get_tmdb_key: the key, or HTTPException(500) when it is unset or empty.
get_tmdb_key(env) ==
    IF ~TruthyStr(env)
    THEN Raise(HTTPException(500, "TMDB_API_KEY not set in environment"))
    ELSE Return(env[1])

\* params[name] = value on an insertion-ordered dict of <<name, text>> pairs.
SetParam(params, name, value) ==
    IF \E i \in 1..Len(params) : params[i][1] = name
    THEN [i \in 1..Len(params) |->
            IF params[i][1] = name THEN <<name, value>> ELSE params[i]]
    ELSE Append(params, <<name, value>>)

\* The first half of tmdb_get, up to the blocking requests.get: the GET to
\* issue, or the configuration failure raised before it.
tmdb_get_call(env, path, params) ==
    LET key == get_tmdb_key(env) IN
    IF key.kind = "raise" THEN key
    ELSE Return([url     |-> TMDB_BASE \o path,
                 path    |-> path,
                 params  |-> SetParam(params, "api_key", key.value),
                 timeout |-> REQUEST_TIMEOUT])

\* The query string requests builds from params, in insertion order.
RECURSIVE QueryString(_)
QueryString(params) ==
    IF params = <<>> THEN ""
    ELSE params[1][1] \o "=" \o params[1][2]
         \o (IF Len(params) > 1 THEN "&" ELSE "") \o QueryString(Tail(params))

\* request.path_url: the request target, path and query string.
PathUrl(request) == "/3" \o request.path \o "?" \o QueryString(request.params)

Pool == "HTTPSConnectionPool(host='api.themoviedb.org', port=443): "

\* str(e) of the requests.RequestException that requests.get raised.  The
\* exceptions requests builds from urllib3's MaxRetryError (a name that does
\* not resolve, a refused connection, a connect timeout) name the request
\* target; a read timeout names the timeout only.
ExcText(type, request) ==
    CASE type = "ConnectionError" ->
           Pool \o "Max retries exceeded with url: " \o PathUrl(request)
                \o " (Caused by NewConnectionError)"
      [] type = "ConnectTimeout" ->
           Pool \o "Max retries exceeded with url: " \o PathUrl(request)
                \o " (Caused by ConnectTimeoutError)"
      [] type = "ReadTimeout" ->
           Pool \o "Read timed out. (read timeout=" \o Str(request.timeout) \o ")"

\* An exception no handler catches: the server answers 500 with a fixed text.
Unhandled == [status_code |-> 500, content |-> [text |-> "Internal Server Error"]]

\* Mutant of tmdb_get_result: a status other than 200 is reported as a 502
\* with a message of the proxy's own.
tmdb_get_result_translated(request, outcome) ==
    IF outcome.kind = "exc"
    THEN Raise(HTTPException(502, "TMDB request failed: " \o ExcText(outcome.type, request)))
    ELSE IF outcome.status_code # HTTP_OK
    THEN Raise(HTTPException(502, "TMDB request failed"))
    ELSE IF outcome.json # None
    THEN Return(outcome.json[1])
    ELSE IF outcome.json_exc = "RequestException"
    THEN Raise(HTTPException(502, "TMDB request failed: " \o "Expecting value: line 1 column 1 (char 0)"))
    ELSE Raise(Unhandled)

\* Mutant of tmdb_get_result: no except clause, so that a RequestException
\* reaches the framework unhandled.
tmdb_get_result_uncaught(request, outcome) ==
    IF outcome.kind = "exc"
    THEN Raise(Unhandled)
    ELSE IF outcome.status_code # HTTP_OK
    THEN Raise(HTTPException(outcome.status_code, outcome.text))
    ELSE IF outcome.json # None
    THEN Return(outcome.json[1])
    ELSE Raise(Unhandled)

\* Mutant of tmdb_get_result: a failed call is swallowed and an empty
\* document returned.
tmdb_get_result_swallowed(request, outcome) ==
    IF outcome.kind = "exc"
    THEN Return([k \in {} |-> None])
    ELSE IF outcome.status_code # HTTP_OK
    THEN Return([k \in {} |-> None])
    ELSE IF outcome.json # None
    THEN Return(outcome.json[1])
    ELSE Return([k \in {} |-> None])

\* The second half of tmdb_get: what it returns or raises for the outcome of
\* requests.get.  The HTTPException raised for a status other than 200 is no
\* RequestException and passes the except clause.  resp.json() of a body that
\* is no JSON raises an exception that is a RequestException in requests 2.27
\* and later, and a plain ValueError before.
tmdb_get_result(request, outcome) ==
    IF outcome.kind = "exc"
    THEN Raise(HTTPException(502, "TMDB request failed: " \o ExcText(outcome.type, request)))
    ELSE IF outcome.status_code # HTTP_OK
    THEN Raise(HTTPException(outcome.status_code, outcome.text))
    ELSE IF outcome.json # None
    THEN Return(outcome.json[1])
    ELSE IF outcome.json_exc = "RequestException"
    THEN Raise(HTTPException(502, "TMDB request failed: " \o "Expecting value: line 1 column 1 (char 0)"))
    ELSE Raise(Unhandled)

(***************************************************************************)
(* Item normalizer.                                                        *)
(***************************************************************************)
IMAGE_BASE == "https://image.tmdb.org"

\* Mutant of ItemTitle: name is preferred to title.
ItemTitle_name_first(item) ==
    IF TruthyStr(Get(item, "name")) THEN Get(item, "name")
    ELSE IF TruthyStr(Get(item, "title")) THEN Get(item, "title")
    ELSE Some("Untitled")

\* item.get("title") or item.get("name") or "Untitled"
ItemTitle(item) ==
    IF TruthyStr(Get(item, "title")) THEN Get(item, "title")
    ELSE IF TruthyStr(Get(item, "name")) THEN Get(item, "name")
    ELSE Some("Untitled")

\* Mutant of ItemDate: first_air_date is preferred to release_date.
ItemDate_air_first(item) ==
    IF TruthyChars(Get(item, "first_air_date")) THEN Get(item, "first_air_date")
    ELSE IF TruthyChars(Get(item, "release_date")) THEN Get(item, "release_date")
    ELSE Some(<<>>)

\* item.get("release_date") or item.get("first_air_date") or ""
ItemDate(item) ==
    IF TruthyChars(Get(item, "release_date")) THEN Get(item, "release_date")
    ELSE IF TruthyChars(Get(item, "first_air_date")) THEN Get(item, "first_air_date")
    ELSE Some(<<>>)

\* int(date.split("-")[0]) if date else None
ItemYear(item) ==
    LET date == ItemDate(item) IN
    IF TruthyChars(date) THEN Some(ParseInt(FirstSegment(date[1]))) ELSE None

\* Mutant of ItemPoster: the path is passed on as it came.
ItemPoster_bare(item) == Get(item, "poster_path")

ItemPoster(item) ==
    LET poster_path == Get(item, "poster_path") IN
    IF TruthyStr(poster_path)
    THEN Some(IMAGE_BASE \o "/t/p/w500" \o poster_path[1])
    ELSE None

ItemBackdrop(item) ==
    IF TruthyStr(Get(item, "backdrop_path"))
    THEN Some(IMAGE_BASE \o "/t/p/w780" \o Get(item, "backdrop_path")[1])
    ELSE None

map_tmdb_item(item) ==
    [id                |-> Get(item, "id"),
     title             |-> ItemTitle(item),
     year              |-> ItemYear(item),
     rating            |-> Get(item, "vote_average"),
     media_type        |-> Get(item, "media_type"),
     poster            |-> ItemPoster(item),
     backdrop          |-> ItemBackdrop(item),
     overview          |-> Get(item, "overview"),
     original_language |-> Get(item, "original_language")]

(***************************************************************************)
(* Endpoint handlers.  Each handler is two steps around its one blocking   *)
(* call: X_call runs it up to requests.get (or to the exception raised     *)
(* before it), X_result runs it from the outcome of requests.get to its    *)
(* end.                                                                    *)
(***************************************************************************)
EmptyDict == [k \in {} |-> None]

Ok(payload) == [status_code |-> 200, content |-> payload]

\* [map_tmdb_item(i) for i in data.get("results", [])] inside the envelope
Envelope(data) ==
    LET results == GetOr(data, "results", Some(<<>>))[1] IN
    [page        |-> GetOr(data, "page", Some(1)),
     total_pages |-> GetOr(data, "total_pages", Some(1)),
     results     |-> [i \in 1..Len(results) |-> map_tmdb_item(results[i])]]

\* Mutant of tmdb_trending_call: the two path segments are swapped.
tmdb_trending_call_swapped(env, r) ==
    tmdb_get_call(env, "/trending/" \o r.time_window \o "/" \o r.media_type,
                  << <<"page", Str(r.page)>> >>)

tmdb_trending_call(env, r) ==
    tmdb_get_call(env, "/trending/" \o r.media_type \o "/" \o r.time_window,
                  << <<"page", Str(r.page)>> >>)

tmdb_trending_result(data) == Ok(Envelope(data))

\* Mutant of tmdb_search_call: "if not query" for "if not query.strip()".
tmdb_search_call_unstripped(env, r) ==
    IF r.query = <<>>
    THEN Raise(HTTPException(400, "Query is required"))
    ELSE tmdb_get_call(env,
                       IF r.type = "multi" THEN "/search/multi" ELSE "/search/" \o r.type,
                       << <<"query", Join(r.query)>>,
                          <<"page", Str(r.page)>>,
                          <<"include_adult", "False">> >>)

tmdb_search_call(env, r) ==
    IF Strip(r.query) = <<>>
    THEN Raise(HTTPException(400, "Query is required"))
    ELSE tmdb_get_call(env,
                       IF r.type = "multi" THEN "/search/multi" ELSE "/search/" \o r.type,
                       << <<"query", Join(r.query)>>,
                          <<"page", Str(r.page)>>,
                          <<"include_adult", "False">> >>)

tmdb_search_result(data) == Ok(Envelope(data))

tmdb_movie_details_call(env, r) ==
    tmdb_get_call(env, "/movie/" \o Str(r.movie_id),
                  << <<"append_to_response", "videos,credits">> >>)

\* details = map_tmdb_item(data); details.update({...})
tmdb_movie_details_result(data) ==
    Ok([genres       |-> GetOr(data, "genres", Some(<<>>)),
        runtime      |-> Get(data, "runtime"),
        videos       |-> GetOr(GetOr(data, "videos", Some(EmptyDict))[1], "results", Some(<<>>)),
        credits      |-> GetOr(data, "credits", Some(EmptyDict)),
        homepage     |-> Get(data, "homepage"),
        status       |-> Get(data, "status"),
        release_date |-> Get(data, "release_date")]
       @@ map_tmdb_item(data))

(***************************************************************************)
(* The inputs: the configured key, the inbound requests (as the framework  *)
(* hands them to the handlers, its Query constraints met) and what the     *)
(* upstream may answer.                                                    *)
(***************************************************************************)
MaxResults == 2

TRENDING_MAX_PAGE == 1000

SEARCH_MAX_PAGE == 100

Keys == {None, Some(""), Some("k1"), Some("k2")}

TrendingRequests ==
    [endpoint : {"trending"}, media_type : {"all", "movie", "tv"},
     time_window : {"day", "week"}, page : {1, TRENDING_MAX_PAGE}]

Queries == { <<>>, <<" ">>, <<"\t", " ">>, <<"d", "u", "n", "e">>, <<" ", "u", "p", " ">> }

SearchRequests ==
    [endpoint : {"search"}, query : Queries, page : {1, SEARCH_MAX_PAGE},
     type : {"multi", "movie"}]

DetailRequests == [endpoint : {"movie"}, movie_id : {42, 603}]

\* The dicts with at most the key k, its value among vals.
OptField(k, vals) == {EmptyDict} \cup {k :> v : v \in vals}

Date(text) == Some(text)

Dates ==
    { None, Date(<<>>),
      Date(<<"2", "0", "2", "1", "-", "0", "5", "-", "0", "4">>),
      Date(<<"1", "9", "9", "9", "-", "1", "2", "-", "3", "1">>),
      Date(<<"9", "8", "7", "-", "0", "1", "-", "0", "1">>),
      Date(<<"2", "0", "2", "1", "0", "5", "0", "4">>) }

TitleParts ==
    { t @@ n : t \in OptField("title", {None, Some(""), Some("X")}),
               n \in OptField("name", {Some(""), Some("N")}) }

DateParts ==
    { r @@ f : r \in OptField("release_date", Dates),
               f \in OptField("first_air_date",
                              {Date(<<>>), Date(<<"2", "0", "1", "0", "-", "0", "9", "-", "1", "7">>)}) }

PathParts ==
    { p @@ b : p \in OptField("poster_path", {None, Some(""), Some("/a.jpg")}),
               b \in OptField("backdrop_path", {None, Some(""), Some("/b.jpg")}) }

OtherParts ==
    { EmptyDict,
      [id |-> Some(42), vote_average |-> Some(7), media_type |-> Some("movie"),
       overview |-> Some("An overview."), original_language |-> Some("en")] }

\* The items of a listing page.
ListItems ==
    { [id |-> Some(42), title |-> Some("X"), release_date |-> Date(<<"2", "0", "2", "0", "-", "0", "1", "-", "0", "1">>),
       poster_path |-> Some("/a.jpg")],
      [id |-> Some(7), name |-> Some("N"), first_air_date |-> Date(<<"2", "0", "1", "0", "-", "0", "9", "-", "1", "7">>),
       poster_path |-> None, backdrop_path |-> Some("/b.jpg"), media_type |-> Some("tv")],
      [id |-> Some(9), media_type |-> Some("person")] }

\* Upstream item records: the normalizer reads the title fields, the date
\* fields, the image paths and the fields it passes through independently of
\* each other, so each group is varied over all its combinations on its own.
Items == TitleParts \cup DateParts \cup PathParts \cup OtherParts \cup ListItems

ResultLists == UNION { [1..n -> ListItems] : n \in 0..MaxResults }

ListDatas ==
    { p @@ t @@ r : p \in OptField("page", {Some(1), Some(3)}),
                    t \in OptField("total_pages", {Some(10)}),
                    r \in OptField("results", {Some(l) : l \in ResultLists}) }

DetailExtras ==
    { EmptyDict,
      [genres |-> Some(<< [id |-> 18, name |-> "Drama"] >>), runtime |-> Some(120),
       videos |-> Some([results |-> Some(<< [key |-> "abc", site |-> "YouTube"] >>)]),
       credits |-> Some([cast |-> << [name |-> "A"] >>]),
       homepage |-> Some("https://example.org"), status |-> Some("Released")],
      [videos |-> Some(EmptyDict), runtime |-> None] }

DetailDatas == { i @@ e : i \in Items, e \in DetailExtras }

Datas(endpoint) == IF endpoint = "movie" THEN DetailDatas ELSE ListDatas

HttpReply(status_code, text, json, json_exc) ==
    [kind |-> "http", status_code |-> status_code, text |-> text, json |-> json,
     json_exc |-> json_exc]

\* The replies with a status other than 200: resp.text is relayed.
ErrorReplies ==
    { HttpReply(s, "{\"status_message\":\"Not found\"}",
                Some([status_message |-> Some("Not found")]), "none") :
        s \in {401, 404, 500} }
    \cup { HttpReply(201, "{\"success\":true}", Some([success |-> Some(TRUE)]), "none") }
    \cup { HttpReply(s, "", None, "none") : s \in {201, 404, 500} }

\* The replies with status 200: a JSON document, or a body that is none.
OkReplies(endpoint) ==
    { HttpReply(HTTP_OK, "(json)", Some(d), "none") : d \in Datas(endpoint) }
    \cup { HttpReply(HTTP_OK, "<html>", None, e) : e \in {"RequestException", "ValueError"} }

ExcTypes == {"ConnectionError", "ConnectTimeout", "ReadTimeout"}

(***************************************************************************)
(* The state machine: one inbound request at a time (the handlers share    *)
(* no state, so requests do not interact).                                 *)
(***************************************************************************)
Init ==
    /\ TMDB_API_KEY \in Keys
    /\ pc = "idle"
    /\ req = None
    /\ sent = <<>>
    /\ upstream = None
    /\ response = None

\* The handler runs from its entry to requests.get, or to the exception it
\* raises before, which the framework turns into the response.
Enter(r, call) ==
    /\ pc = "idle"
    /\ req' = Some(r)
    /\ upstream' = None
    /\ IF call.kind = "raise"
       THEN /\ pc' = "done"
            /\ sent' = <<>>
            /\ response' = Some(call.exc)
       ELSE /\ pc' = "waiting"
            /\ sent' = <<call.value>>
            /\ response' = None
    /\ UNCHANGED TMDB_API_KEY

tmdb_trending == \E r \in TrendingRequests : Enter(r, tmdb_trending_call(TMDB_API_KEY, r))

tmdb_search == \E r \in SearchRequests : Enter(r, tmdb_search_call(TMDB_API_KEY, r))

tmdb_movie_details == \E r \in DetailRequests : Enter(r, tmdb_movie_details_call(TMDB_API_KEY, r))

\* The rest of the handler after tmdb_get returned data.
HandlerResult(endpoint, data) ==
    CASE endpoint = "trending" -> tmdb_trending_result(data)
      [] endpoint = "search"   -> tmdb_search_result(data)
      [] endpoint = "movie"    -> tmdb_movie_details_result(data)

\* The response once requests.get has produced outcome.
Complete(r, request, outcome) ==
    LET got == tmdb_get_result(request, outcome) IN
    IF got.kind = "raise" THEN got.exc ELSE HandlerResult(r.endpoint, got.value)

Resume(outcome) ==
    /\ pc = "waiting"
    /\ upstream' = Some(outcome)
    /\ response' = Some(Complete(req[1], sent[Len(sent)], outcome))
    /\ pc' = "done"
    /\ UNCHANGED <<TMDB_API_KEY, req, sent>>

\* requests.get returns the upstream's reply.
UpstreamReplies ==
    \E o \in ErrorReplies \cup (IF pc = "waiting" THEN OkReplies(req[1].endpoint) ELSE {}) :
        Resume(o)

\* requests.get raises: the connection fails, or the 15 second timeout expires.
TransportFails == \E t \in ExcTypes : Resume([kind |-> "exc", type |-> t])

\* The response is sent; nothing of the request is kept.
Respond ==
    /\ pc = "done"
    /\ pc' = "idle"
    /\ req' = None
    /\ sent' = <<>>
    /\ upstream' = None
    /\ response' = None
    /\ UNCHANGED TMDB_API_KEY

Next ==
    \/ tmdb_trending
    \/ tmdb_search
    \/ tmdb_movie_details
    \/ UpstreamReplies
    \/ TransportFails
    \/ Respond

Spec == Init /\ [][Next]_vars

\* requests.get with timeout=15 returns or raises; the framework sends the
\* response of a handler that ended.
FairSpec == Spec /\ WF_vars(UpstreamReplies \/ TransportFails) /\ WF_vars(Respond)

(***************************************************************************)
(* Properties.                                                             *)
(***************************************************************************)
Handling == pc # "idle"

Done == pc = "done"

\* The query is empty or only whitespace.
Blank(query) == \A i \in 1..Len(query) : query[i] \in {" ", "\t", "\n", "\r"}

BlankSearch == Handling /\ req[1].endpoint = "search" /\ Blank(req[1].query)

\* requests.get returned an HTTP reply / raised.
GotReply == Done /\ upstream # None /\ upstream[1].kind = "http"

GotException == Done /\ upstream # None /\ upstream[1].kind = "exc"

\* C1: a search whose query is empty or only whitespace is answered 400 and
\* issues no upstream request, whatever its page and type and whether or not a
\* key is configured.
C1_BlankQueryRejected ==
    BlankSearch =>
        /\ Done
        /\ response[1].status_code = 400
        /\ sent = <<>>
        /\ upstream = None

C1_Witness ==
    /\ BlankSearch /\ Done
    /\ req[1].query = <<"\t", " ">>
    /\ TMDB_API_KEY = Some("k1")
    /\ response[1].status_code = 400
    /\ sent = <<>>

\* C2 as stated: a reply with a status outside 200..299 fails with the
\* upstream's status code and raw body, and every reply with a status in
\* 200..299 (carrying a JSON body) is a success whose parsed body is used.
C2_Original ==
    GotReply =>
        LET reply == upstream[1] IN
        IF reply.status_code \notin 200..299
        THEN response[1] = HTTPException(reply.status_code, reply.text)
        ELSE reply.json # None =>
                response[1] = HandlerResult(req[1].endpoint, reply.json[1])

\* C2, amended: a reply with a status other than 200 fails with the upstream's
\* status code and raw body (a 201 included), and a reply with status 200
\* carrying a JSON body is a success whose parsed body is used.
C2_UpstreamStatusRelayed ==
    GotReply =>
        LET reply == upstream[1] IN
        IF reply.status_code # 200
        THEN /\ response[1].status_code = reply.status_code
             /\ response[1].content = [detail |-> reply.text]
        ELSE reply.json # None =>
                response[1] = HandlerResult(req[1].endpoint, reply.json[1])

C2_Witness ==
    /\ GotReply
    /\ upstream[1].status_code = 404
    /\ upstream[1].text = "{\"status_message\":\"Not found\"}"
    /\ response[1].status_code = 404
    /\ response[1].content.detail = "{\"status_message\":\"Not found\"}"

\* C3: a transport failure of the outbound call (no connection, or no reply
\* within the timeout) ends the request with a 502 that carries the cause's
\* description, and a handler waiting on the upstream always comes to an end.
C3_TransportFailureEnds ==
    /\ [](GotException =>
            /\ response[1].status_code = 502
            /\ response[1].content =
                 [detail |-> "TMDB request failed: " \o ExcText(upstream[1].type, sent[1])])
    /\ (pc = "waiting") ~> Done

C3_Witness ==
    /\ GotException
    /\ upstream[1].type = "ReadTimeout"
    /\ response[1].status_code = 502
    /\ response[1].content.detail =
         "TMDB request failed: HTTPSConnectionPool(host='api.themoviedb.org', port=443): Read timed out. (read timeout=15)"

\* C4: with no key or an empty key configured, every call of the provider
\* client (every request but a blank search, which is rejected before) ends
\* at once with a 500 and issues no upstream request.
C4_NoKeyIsServerFault ==
    (Handling /\ TMDB_API_KEY \in {None, Some("")} /\ ~BlankSearch) =>
        /\ Done
        /\ response[1] = HTTPException(500, "TMDB_API_KEY not set in environment")
        /\ sent = <<>>
        /\ upstream = None

C4_Witness ==
    /\ Done
    /\ TMDB_API_KEY = Some("")
    /\ req[1].endpoint = "movie"
    /\ response[1].status_code = 500
    /\ sent = <<>>

\* The upstream's reply was a JSON document with status 200.
GotData == GotReply /\ upstream[1].status_code = 200 /\ upstream[1].json # None

UpstreamData == upstream[1].json[1]

\* The upstream's results array, empty when the reply has none.
UpstreamResults ==
    IF "results" \in DOMAIN UpstreamData THEN UpstreamData["results"][1] ELSE <<>>

\* C5: a trending request is sent to /trending/{media_type}/{time_window}
\* with the caller's page, and when the upstream answers with a page the
\* response is {page, total_pages, results}: the upstream's page and
\* total_pages (1 for one the reply lacks) and the upstream's results, each
\* one normalized, in the same order; no results array gives results = [].
C5_TrendingEnvelope ==
    (Handling /\ req[1].endpoint = "trending" /\ sent # <<>>) =>
        /\ Len(sent) = 1
        /\ sent[1].url = "https://api.themoviedb.org/3/trending/"
                            \o req[1].media_type \o "/" \o req[1].time_window
        /\ \E i \in 1..Len(sent[1].params) :
              sent[1].params[i] = <<"page", IF req[1].page = 1 THEN "1" ELSE "1000">>
        /\ GotData =>
              LET body == response[1].content IN
              /\ response[1].status_code = 200
              /\ DOMAIN body = {"page", "total_pages", "results"}
              /\ body.page = (IF "page" \in DOMAIN UpstreamData
                               THEN UpstreamData["page"] ELSE Some(1))
              /\ body.total_pages = (IF "total_pages" \in DOMAIN UpstreamData
                                      THEN UpstreamData["total_pages"] ELSE Some(1))
              /\ Len(body.results) = Len(UpstreamResults)
              /\ \A i \in 1..Len(UpstreamResults) :
                    body.results[i] = map_tmdb_item(UpstreamResults[i])

C5_Witness ==
    /\ GotData /\ req[1].endpoint = "trending"
    /\ req[1].page = 1000
    /\ Len(UpstreamResults) = 2
    /\ UpstreamResults[1] # UpstreamResults[2]
    /\ "page" \in DOMAIN UpstreamData
    /\ UpstreamData["page"] = Some(3)
    /\ response[1].content.page = Some(3)
    /\ Len(response[1].content.results) = 2
    /\ response[1].content.results[1].title = Some("N")
    /\ response[1].content.results[2].title = Some("X")

\* Every <<upstream item, normalized item>> of the response being sent.
Normalized ==
    IF ~GotData THEN {}
    ELSE IF req[1].endpoint = "movie" THEN { <<UpstreamData, response[1].content>> }
    ELSE { <<UpstreamResults[i], response[1].content.results[i]>> :
             i \in 1..Len(UpstreamResults) }

\* The value of key k in the upstream item, None when missing or null.
Field(item, k) == IF k \in DOMAIN item THEN item[k] ELSE None

\* C6 as stated: poster is the image base + "/t/p/w500" + poster_path when
\* poster_path is non-null and absent when it is missing or null, likewise
\* backdrop with "/t/p/w780"; neither is a bare path or an empty string.
C6_Original ==
    \A n \in Normalized :
        LET item == n[1]  out == n[2] IN
        /\ out.poster = (IF Field(item, "poster_path") # None
                          THEN Some("https://image.tmdb.org/t/p/w500" \o item["poster_path"][1])
                          ELSE None)
        /\ out.backdrop = (IF Field(item, "backdrop_path") # None
                            THEN Some("https://image.tmdb.org/t/p/w780" \o item["backdrop_path"][1])
                            ELSE None)

\* C6, amended: poster is the image base + "/t/p/w500" + poster_path when
\* poster_path is a non-empty string and absent when it is missing, null or
\* empty, likewise backdrop with "/t/p/w780"; neither is a bare path or an
\* empty string.
C6_ImageUrls ==
    \A n \in Normalized :
        LET item == n[1]  out == n[2] IN
        /\ out.poster = (IF Field(item, "poster_path") \notin {None, Some("")}
                          THEN Some("https://image.tmdb.org/t/p/w500" \o item["poster_path"][1])
                          ELSE None)
        /\ out.backdrop = (IF Field(item, "backdrop_path") \notin {None, Some("")}
                            THEN Some("https://image.tmdb.org/t/p/w780" \o item["backdrop_path"][1])
                            ELSE None)
        /\ out.poster \notin {Some(""), Field(item, "poster_path")} \ {None}
        /\ out.backdrop \notin {Some(""), Field(item, "backdrop_path")} \ {None}

C6_Witness ==
    \E n \in Normalized :
        /\ Field(n[1], "poster_path") = Some("/a.jpg")
        /\ Field(n[1], "backdrop_path") = Some("")
        /\ n[2].poster = Some("https://image.tmdb.org/t/p/w500/a.jpg")
        /\ n[2].backdrop = None

Empty(date) == date \in {None, Some(<<>>)}

\* The date the year is taken from: release_date when it is present and not
\* empty, first_air_date otherwise.
Resolved(item) ==
    IF ~Empty(Field(item, "release_date")) THEN Field(item, "release_date")
    ELSE Field(item, "first_air_date")

Digits == {"0", "1", "2", "3", "4", "5", "6", "7", "8", "9"}

\* The number a text of four digits denotes.
Value4(text) ==
    1000 * DigitValue(text[1]) + 100 * DigitValue(text[2])
        + 10 * DigitValue(text[3]) + DigitValue(text[4])

HasPrefix4(text) == Len(text) >= 4 /\ \A i \in 1..4 : text[i] \in Digits

\* C7 as stated: year is the integer value of the 4-digit prefix of the
\* resolved date, and is absent exactly when release_date and first_air_date
\* are both empty or missing; in the movie detail the year agrees with the raw
\* release_date returned beside it.
C7_Original ==
    \A n \in Normalized :
        LET date == Resolved(n[1])  out == n[2] IN
        /\ out.year = None <=> Empty(date)
        /\ ~Empty(date) => HasPrefix4(date[1]) /\ out.year = Some(Value4(date[1]))
        /\ req[1].endpoint = "movie" =>
              /\ out.release_date = Field(n[1], "release_date")
              /\ ~Empty(out.release_date) => out.year = Some(Value4(out.release_date[1]))

\* The dates of the form YYYY-..., four digits and a "-".
IsoForm(text) == HasPrefix4(text) /\ Len(text) >= 5 /\ text[5] = "-"

\* C7, amended: year is the integer value of the text before the first "-"
\* of the resolved date (all of it when it has no "-"), which is the 4-digit
\* prefix for a date of the form YYYY-MM-DD; it is absent exactly when
\* release_date and first_air_date are both empty or missing; in the movie
\* detail the raw release_date is returned and, when it is not empty, the year
\* is the one taken from it.
C7_YearFromDate ==
    \A n \in Normalized :
        LET date == Resolved(n[1])  out == n[2] IN
        /\ out.year = None <=> Empty(date)
        /\ ~Empty(date) =>
              /\ \E k \in 1..Len(date[1]) :
                    /\ k = Len(date[1]) \/ date[1][k + 1] = "-"
                    /\ \A i \in 1..k : date[1][i] \in Digits
                    /\ out.year = Some(ParseInt(SubSeq(date[1], 1, k)))
              /\ IsoForm(date[1]) => out.year = Some(Value4(date[1]))
        /\ req[1].endpoint = "movie" =>
              /\ out.release_date = Field(n[1], "release_date")
              /\ ~Empty(out.release_date) => date = out.release_date

C7_Witness ==
    \E n \in Normalized :
        /\ req[1].endpoint = "movie"
        /\ Field(n[1], "release_date") = Some(<<"2", "0", "2", "1", "-", "0", "5", "-", "0", "4">>)
        /\ Field(n[1], "first_air_date") = Some(<<"2", "0", "1", "0", "-", "0", "9", "-", "1", "7">>)
        /\ n[2].year = Some(2021)
        /\ n[2].release_date = Field(n[1], "release_date")

\* C8: the normalized title is the item's title when it has one (present and
\* not empty), else its name when it has one, else "Untitled"; it is never
\* absent or empty.
C8_TitleFallback ==
    \A n \in Normalized :
        LET title == Field(n[1], "title")  name == Field(n[1], "name") IN
        /\ n[2].title = (IF title \notin {None, Some("")} THEN title
                          ELSE IF name \notin {None, Some("")} THEN name
                          ELSE Some("Untitled"))
        /\ n[2].title \notin {None, Some("")}

C8_Witness ==
    \E n \in Normalized :
        /\ "title" \notin DOMAIN n[1]
        /\ "name" \notin DOMAIN n[1]
        /\ n[2].title = Some("Untitled")

\* The upstream call failed: requests.get raised, or the status is not 200.
UpstreamFailed == GotException \/ (GotReply /\ upstream[1].status_code # 200)

IsError(resp) == resp.status_code # 200 /\ DOMAIN resp.content \in {{"detail"}, {"text"}}

\* A response carrying the whole normalized payload.
IsComplete(resp) ==
    /\ resp.status_code = 200
    /\ GotData
    /\ IF req[1].endpoint = "movie"
       THEN {"id", "title", "year", "genres", "videos", "credits", "release_date"}
                \subseteq DOMAIN resp.content
       ELSE /\ DOMAIN resp.content = {"page", "total_pages", "results"}
            /\ Len(resp.content.results) = Len(UpstreamResults)

\* C9: at most one upstream request is issued per inbound request: none
\* after a validation or configuration failure, and exactly one, not retried,
\* when the upstream fails, which is reported as an error; a response is
\* either an error or the whole normalized payload.
C9_SingleAttempt ==
    /\ Len(sent) <= 1
    /\ pc = "waiting" => Len(sent) = 1 /\ upstream = None
    /\ Done =>
          /\ response[1] \in { HTTPException(400, "Query is required"),
                               HTTPException(500, "TMDB_API_KEY not set in environment") }
                => sent = <<>> /\ upstream = None
          /\ UpstreamFailed => Len(sent) = 1 /\ IsError(response[1])
          /\ IsError(response[1]) \/ IsComplete(response[1])

C9_Witness ==
    /\ GotReply
    /\ upstream[1].status_code = 500
    /\ Len(sent) = 1
    /\ response[1].status_code = 500
    /\ DOMAIN response[1].content = {"detail"}

\* What the handler of request r does up to requests.get under key env.
HandlerCall(env, r) ==
    CASE r.endpoint = "trending" -> tmdb_trending_call(env, r)
      [] r.endpoint = "search"   -> tmdb_search_call(env, r)
      [] r.endpoint = "movie"    -> tmdb_movie_details_call(env, r)

\* The response to request r under key env when requests.get, if it is
\* reached, ends as in the current state.
ResponseUnder(env, r) ==
    LET call == HandlerCall(env, r) IN
    IF call.kind = "raise" THEN call.exc ELSE Complete(r, call.value, upstream[1])

\* C10: the response does not depend on the value of the configured key:
\* under any other key, the same request with the same upstream behaviour
\* gets the same response.
C10_KeyNotInResponse ==
    (Done /\ TMDB_API_KEY \notin {None, Some("")}) =>
        \A k \in {"k1", "k2"} : response[1] = ResponseUnder(Some(k), req[1])

====
